---- MODULE Spec2Model ----
(***************************************************************************)
(* The drive scanner of lib/gui/modules/drive-scanner.js: a DriveScanner   *)
(* (an EventEmitter) that polls drivelist.list() from a setTimeout loop,   *)
(* names the drives, drops the system drives unless settings.unsafeMode is *)
(* set, and emits 'drives' or 'error'.                                     *)
(*                                                                         *)
(* The scanner object, the event loop's pending timers, the enumerations   *)
(* in flight and the emitter's 'error' listeners are the state; start(),   *)
(* stop(), a timer firing into run(), and drivelist.list() calling back    *)
(* are the steps.  Subscribers are taken not to throw; an 'error' event    *)
(* with no listener is thrown by EventEmitter.emit, as Node defines it.    *)
(***************************************************************************)
EXTENDS Integers, Sequences, FiniteSets, TLC

\* Bounds of the model.
MaxChains == 2       \* start() is not called while this many timers + scans are live
MaxCount == 3        \* ticks that start a scan, in a specification with exact counters
MaxStarts == 2       \* start() calls, in a specification with exact counters
MaxListeners == 1    \* 'error' listeners attached at once
MaxDrives == 2       \* drives in one enumeration
MaxMounts == 2       \* mount points in one enumeration, over all its drives

\* Program constants.
DRIVE_SCANNER_DELAY_MS == 2000
DRIVE_SCANNER_FIRST_SCAN_DELAY_MS == 125

Null == "null"
TimerIds == 1 .. (MaxChains + 1)
ScanIds == 1 .. MaxChains
Platforms == {"win32", "linux"}
Errors == {"EACCES", "EIO"}
Devices == {"/dev/sda", "/dev/sdb"}
Paths == {"D:\\", "E:\\"}

VARIABLES
    isRunning,       \* this.isRunning
    timer,           \* this.timer: the last handle setTimeout returned, 0 for null
    scanCount,       \* this.scanCount
    errorCount,      \* this.errorCount
    timers,          \* the event loop: timers[t] is the delay timer t was armed with, 0 when t is not pending
    inflight,        \* the drivelist.list() calls whose callback has not run yet
    errorListeners,  \* how many listeners the emitter holds for 'error'
    unsafeMode,      \* settings.get('unsafeMode')
    platform,        \* os.platform()
    emitted,         \* how many times emit() was called, per event name
    last,            \* the most recent emit() since the last start()/stop() call: the event and its payload
    listed,          \* what drivelist.list() handed to its most recent callback since that call
    lastTick,        \* what the most recent run() since the last stop() did: "scan", "idle" or "none"
    lastCall,        \* the most recent of the start()/stop() calls: "start", "stop" or "none"
    doubleStart,     \* the two most recent calls were both start()
    startCalls,      \* how many times start() was called
    inflightAtStop,  \* the scans that were in flight at the most recent stop() and still are
    unsafeAtTick,    \* what unsafeMode was when the most recent scan since the last start()/stop() call was started
    wrap             \* whether the counters are observed by their parity only (never changes)

vars == <<isRunning, timer, scanCount, errorCount, timers, inflight, errorListeners,
          unsafeMode, platform, emitted, last, listed, lastTick, lastCall,
          doubleStart, startCalls, inflightAtStop, unsafeAtTick, wrap>>

scannerVars == <<isRunning, timer, scanCount, errorCount>>
callVars == <<lastCall, doubleStart, startCalls, inflightAtStop>>
envVars == <<errorListeners, unsafeMode, platform, wrap>>
eventVars == <<emitted, last, listed>>

----------------------------------------------------------------------------
\* Drive descriptors and the enumerations drivelist.list() can return.

RECURSIVE SeqsUpTo(_, _)
SeqsUpTo(S, n) ==
    IF n = 0 THEN {<<>>}
    ELSE LET shorter == SeqsUpTo(S, n - 1)
         IN  shorter \cup {Append(q, x) : q \in {r \in shorter : Len(r) = n - 1}, x \in S}

Mountpoint == [path : Paths]

Drive == [device : Devices, system : BOOLEAN, mountpoints : SeqsUpTo(Mountpoint, MaxMounts)]

RECURSIVE TotalMounts(_)
TotalMounts(drives) ==
    IF drives = <<>> THEN 0
    ELSE Len(Head(drives).mountpoints) + TotalMounts(Tail(drives))

RECURSIVE ListsUpTo(_)
ListsUpTo(n) ==
    IF n = 0 THEN {<<>>}
    ELSE LET shorter == ListsUpTo(n - 1)
             longest == {l \in shorter : Len(l) = n - 1}
             pairs == {p \in Drive \X longest :
                          Len(p[1].mountpoints) + TotalMounts(p[2]) <= MaxMounts}
         IN  shorter \cup {<<p[1]>> \o p[2] : p \in pairs}

RawLists == ListsUpTo(MaxDrives)

\* The enumerations the scheduling specifications draw from.
ScenarioLists ==
    { <<>>,
      << [device |-> "/dev/sda", system |-> TRUE, mountpoints |-> <<>>],
         [device |-> "/dev/sdb", system |-> FALSE, mountpoints |-> <<[path |-> "D:\\"]>>] >> }

----------------------------------------------------------------------------
\* Pure functions.

\* _.map(mountpoints, 'path')
RECURSIVE mapPath(_)
mapPath(mountpoints) ==
    IF mountpoints = <<>> THEN <<>>
    ELSE <<Head(mountpoints).path>> \o mapPath(Tail(mountpoints))

\* _.join(strings, separator): Array.prototype.join
RECURSIVE join(_, _)
join(strings, separator) ==
    IF strings = <<>> THEN ""
    ELSE IF Len(strings) = 1 THEN strings[1]
    ELSE strings[1] \o separator \o join(Tail(strings), separator)

\* the mount points name the drive on every platform
driveName_AnyPlatform(drive) ==
    IF drive.mountpoints # <<>>
    THEN join(mapPath(drive.mountpoints), ", ")
    ELSE drive.device

\* the name processDrives gives one drive
driveName(drive) ==
    IF platform = "win32" /\ drive.mountpoints # <<>>
    THEN join(mapPath(drive.mountpoints), ", ")
    ELSE drive.device

RECURSIVE processDrives(_)
processDrives(drives) ==
    IF drives = <<>> THEN <<>>
    ELSE <<[device |-> Head(drives).device,
            system |-> Head(drives).system,
            mountpoints |-> Head(drives).mountpoints,
            name |-> driveName(Head(drives))]>> \o processDrives(Tail(drives))

\* _.reject(list, { system: true })
RECURSIVE rejectSystem(_)
rejectSystem(list) ==
    IF list = <<>> THEN <<>>
    ELSE IF Head(list).system = TRUE THEN rejectSystem(Tail(list))
    ELSE <<Head(list)>> \o rejectSystem(Tail(list))

\* scan() dropping the system drives whatever the setting
scan_AlwaysFilters(error, drives) ==
    IF error # Null
    THEN [error |-> error, drives |-> <<>>]
    ELSE [error |-> Null, drives |-> rejectSystem(processDrives(drives))]

\* DriveScanner.scan: what it passes to its callback, given what drivelist.list() returned
scan(error, drives) ==
    IF error # Null
    THEN [error |-> error, drives |-> <<>>]
    ELSE LET list == processDrives(drives)
         IN  [error |-> Null, drives |-> IF ~unsafeMode THEN rejectSystem(list) ELSE list]

----------------------------------------------------------------------------
\* The event loop's timers and the counters.

Pending == {t \in TimerIds : timers[t] # 0}

Chains == Cardinality(Pending) + Cardinality(inflight)

\* the handle the next setTimeout returns: one no live reference holds
NewTimer ==
    CHOOSE t \in TimerIds :
        /\ t \notin Pending /\ t # timer
        /\ \A u \in TimerIds : u < t => (u \in Pending \/ u = timer)

NewScan == CHOOSE s \in ScanIds : s \notin inflight /\ \A u \in ScanIds : u < s => u \in inflight

setTimeout(t, delay) == [timers EXCEPT ![t] = delay]

clearTimeout(t) == IF t \in TimerIds THEN [timers EXCEPT ![t] = 0] ELSE timers

CanCount(n, max) == wrap \/ n < max

Count(n, max) == IF wrap THEN (n + 1) % 2 ELSE n + 1

----------------------------------------------------------------------------
\* The state after construction (module.exports = new DriveScanner()).

NoEvent == [type |-> "none", error |-> Null, drives |-> <<>>]

NoList == [error |-> Null, drives |-> <<>>]

InitWith(w) ==
    /\ isRunning = FALSE
    /\ timer = 0
    /\ scanCount = 0
    /\ errorCount = 0
    /\ timers = [t \in TimerIds |-> 0]
    /\ inflight = {}
    /\ errorListeners = 0
    /\ unsafeMode \in BOOLEAN
    /\ platform \in Platforms
    /\ emitted = [drives |-> 0, error |-> 0]
    /\ last = NoEvent
    /\ listed = NoList
    /\ lastTick = "none"
    /\ lastCall = "none"
    /\ doubleStart = FALSE
    /\ startCalls = 0
    /\ inflightAtStop = {}
    /\ unsafeAtTick = FALSE
    /\ wrap = w

Init == InitWith(FALSE)

----------------------------------------------------------------------------
\* The operations.

\* start() that cancels the timer it holds before arming the next
start_ClearsFirst ==
    /\ Chains < MaxChains
    /\ CanCount(startCalls, MaxStarts)
    /\ isRunning' = TRUE
    /\ timer' = NewTimer
    /\ timers' = [clearTimeout(timer) EXCEPT ![NewTimer] = DRIVE_SCANNER_FIRST_SCAN_DELAY_MS]
    /\ lastCall' = "start"
    /\ doubleStart' = (lastCall = "start")
    /\ startCalls' = Count(startCalls, MaxStarts)
    /\ last' = NoEvent
    /\ listed' = NoList
    /\ unsafeAtTick' = FALSE
    /\ UNCHANGED <<scanCount, errorCount, inflight, inflightAtStop, lastTick, emitted>>
    /\ UNCHANGED envVars

\* scanner.start()
start ==
    /\ Chains < MaxChains
    /\ CanCount(startCalls, MaxStarts)
    /\ isRunning' = TRUE
    /\ timer' = NewTimer
    /\ timers' = setTimeout(NewTimer, DRIVE_SCANNER_FIRST_SCAN_DELAY_MS)
    /\ lastCall' = "start"
    /\ doubleStart' = (lastCall = "start")
    /\ startCalls' = Count(startCalls, MaxStarts)
    /\ last' = NoEvent
    /\ listed' = NoList
    /\ unsafeAtTick' = FALSE
    /\ UNCHANGED <<scanCount, errorCount, inflight, inflightAtStop, lastTick, emitted>>
    /\ UNCHANGED envVars

\* stop() that also resets the diagnostic counters
stop_ResetsCounters ==
    /\ isRunning' = FALSE
    /\ timers' = clearTimeout(timer)
    /\ scanCount' = 0
    /\ errorCount' = 0
    /\ lastCall' = "stop"
    /\ doubleStart' = FALSE
    /\ inflightAtStop' = inflight
    /\ lastTick' = "none"
    /\ last' = NoEvent
    /\ listed' = NoList
    /\ unsafeAtTick' = FALSE
    /\ UNCHANGED <<timer, inflight, startCalls, emitted>>
    /\ UNCHANGED envVars

\* stop() that flips the flag instead of clearing it
stop_Toggles ==
    /\ isRunning' = ~isRunning
    /\ timers' = clearTimeout(timer)
    /\ lastCall' = "stop"
    /\ doubleStart' = FALSE
    /\ inflightAtStop' = inflight
    /\ lastTick' = "none"
    /\ last' = NoEvent
    /\ listed' = NoList
    /\ unsafeAtTick' = FALSE
    /\ UNCHANGED <<timer, scanCount, errorCount, inflight, startCalls, emitted>>
    /\ UNCHANGED envVars

\* scanner.stop()
stop ==
    /\ isRunning' = FALSE
    /\ timers' = clearTimeout(timer)
    /\ lastCall' = "stop"
    /\ doubleStart' = FALSE
    /\ inflightAtStop' = inflight
    /\ lastTick' = "none"
    /\ last' = NoEvent
    /\ listed' = NoList
    /\ unsafeAtTick' = FALSE
    /\ UNCHANGED <<timer, scanCount, errorCount, inflight, startCalls, emitted>>
    /\ UNCHANGED envVars

\* run() on a repeating timer: the timer that fired stays armed
run_KeepsTimer(t) ==
    /\ timers[t] # 0
    /\ UNCHANGED timers
    /\ IF ~isRunning
       THEN /\ lastTick' = "idle"
            /\ UNCHANGED unsafeAtTick
            /\ UNCHANGED <<scanCount, inflight>>
       ELSE /\ CanCount(scanCount, MaxCount)
            /\ inflight # ScanIds
            /\ scanCount' = Count(scanCount, MaxCount)
            /\ inflight' = inflight \cup {NewScan}
            /\ lastTick' = "scan"
            /\ unsafeAtTick' = unsafeMode
    /\ UNCHANGED <<isRunning, timer, errorCount>>
    /\ UNCHANGED <<callVars, envVars, eventVars>>

\* run() that re-arms its timer when it finds the scanner stopped
run_IdleRearms(t) ==
    /\ timers[t] # 0
    /\ IF ~isRunning
       THEN /\ timers' = [timers EXCEPT ![t] = DRIVE_SCANNER_DELAY_MS]
            /\ lastTick' = "idle"
            /\ UNCHANGED unsafeAtTick
            /\ UNCHANGED <<scanCount, inflight>>
       ELSE /\ timers' = [timers EXCEPT ![t] = 0]
            /\ CanCount(scanCount, MaxCount)
            /\ scanCount' = Count(scanCount, MaxCount)
            /\ inflight' = inflight \cup {NewScan}
            /\ lastTick' = "scan"
            /\ unsafeAtTick' = unsafeMode
    /\ UNCHANGED <<isRunning, timer, errorCount>>
    /\ UNCHANGED <<callVars, envVars, eventVars>>

\* run() that counts the tick before it tests isRunning
run_CountsIdle(t) ==
    /\ timers[t] # 0
    /\ timers' = [timers EXCEPT ![t] = 0]
    /\ CanCount(scanCount, MaxCount)
    /\ scanCount' = Count(scanCount, MaxCount)
    /\ IF ~isRunning
       THEN /\ lastTick' = "idle"
            /\ UNCHANGED unsafeAtTick
            /\ UNCHANGED inflight
       ELSE /\ inflight' = inflight \cup {NewScan}
            /\ lastTick' = "scan"
            /\ unsafeAtTick' = unsafeMode
    /\ UNCHANGED <<isRunning, timer, errorCount>>
    /\ UNCHANGED <<callVars, envVars, eventVars>>

\* run() that starts the scan without counting it
run_NoCount(t) ==
    /\ timers[t] # 0
    /\ timers' = [timers EXCEPT ![t] = 0]
    /\ IF ~isRunning
       THEN /\ lastTick' = "idle"
            /\ UNCHANGED unsafeAtTick
            /\ UNCHANGED inflight
       ELSE /\ CanCount(scanCount, MaxCount)
            /\ inflight' = inflight \cup {NewScan}
            /\ lastTick' = "scan"
            /\ unsafeAtTick' = unsafeMode
    /\ UNCHANGED <<isRunning, timer, scanCount, errorCount>>
    /\ UNCHANGED <<callVars, envVars, eventVars>>

\* run() without its isRunning test
run_Unguarded(t) ==
    /\ timers[t] # 0
    /\ timers' = [timers EXCEPT ![t] = 0]
    /\ CanCount(scanCount, MaxCount)
    /\ scanCount' = Count(scanCount, MaxCount)
    /\ inflight' = inflight \cup {NewScan}
    /\ lastTick' = "scan"
    /\ unsafeAtTick' = unsafeMode
    /\ UNCHANGED <<isRunning, timer, errorCount>>
    /\ UNCHANGED <<callVars, envVars, eventVars>>

\* timer t fires and the event loop calls scanner.run()
run(t) ==
    /\ timers[t] # 0
    /\ timers' = [timers EXCEPT ![t] = 0]
    /\ IF ~isRunning
       THEN /\ lastTick' = "idle"
            /\ UNCHANGED unsafeAtTick
            /\ UNCHANGED <<scanCount, inflight>>
       ELSE /\ CanCount(scanCount, MaxCount)
            /\ scanCount' = Count(scanCount, MaxCount)
            /\ inflight' = inflight \cup {NewScan}
            /\ lastTick' = "scan"
            /\ unsafeAtTick' = unsafeMode
    /\ UNCHANGED <<isRunning, timer, errorCount>>
    /\ UNCHANGED <<callVars, envVars, eventVars>>

\* EventEmitter.emit: with no listener, an 'error' event is thrown instead
throws(type) == type = "error" /\ errorListeners = 0

emit(type, error, drives) ==
    /\ emitted' = [emitted EXCEPT ![type] = Count(@, MaxCount)]
    /\ last' = [type |-> type, error |-> error, drives |-> drives]

\* the callback dropping the result of a scan that completes after stop()
callback_ChecksRunning(error, drives) ==
    /\ IF ~isRunning
       THEN UNCHANGED <<errorCount, emitted, last>>
       ELSE IF error # Null
       THEN /\ errorCount' = Count(errorCount, MaxCount)
            /\ emit("error", error, <<>>)
       ELSE /\ errorCount' = errorCount
            /\ emit("drives", Null, drives)
    /\ IF ~throws(IF error # Null THEN "error" ELSE "drives") /\ isRunning
       THEN /\ timer' = NewTimer
            /\ timers' = setTimeout(NewTimer, DRIVE_SCANNER_DELAY_MS)
       ELSE UNCHANGED <<timer, timers>>

\* the callback run() hands to DriveScanner.scan
callback(error, drives) ==
    /\ IF error # Null
       THEN /\ errorCount' = Count(errorCount, MaxCount)
            /\ emit("error", error, <<>>)
       ELSE /\ errorCount' = errorCount
            /\ emit("drives", Null, drives)
    /\ IF ~throws(IF error # Null THEN "error" ELSE "drives") /\ isRunning
       THEN /\ timer' = NewTimer
            /\ timers' = setTimeout(NewTimer, DRIVE_SCANNER_DELAY_MS)
       ELSE UNCHANGED <<timer, timers>>

\* the callback filtering by the setting as it was when the scan was started
list_UsesSettingAtTick(s, error, drives) ==
    /\ s \in inflight
    /\ inflight' = inflight \ {s}
    /\ inflightAtStop' = inflightAtStop \ {s}
    /\ listed' = [error |-> error, drives |-> drives]
    /\ IF error # Null
       THEN callback(error, <<>>)
       ELSE callback(Null, IF ~unsafeAtTick THEN rejectSystem(processDrives(drives))
                           ELSE processDrives(drives))
    /\ UNCHANGED <<isRunning, scanCount, lastTick, lastCall, doubleStart, startCalls, unsafeAtTick>>
    /\ UNCHANGED envVars

\* the callback of a failed scan stopping the scanner
list_StopsOnError(s, error, drives) ==
    /\ s \in inflight
    /\ inflight' = inflight \ {s}
    /\ inflightAtStop' = inflightAtStop \ {s}
    /\ listed' = [error |-> error, drives |-> drives]
    /\ callback(scan(error, drives).error, scan(error, drives).drives)
    /\ isRunning' = (isRunning /\ error = Null)
    /\ UNCHANGED <<scanCount, lastTick, lastCall, doubleStart, startCalls, unsafeAtTick>>
    /\ UNCHANGED envVars

\* drivelist.list() calls back for scan s with (error, drives)
list(s, error, drives) ==
    /\ s \in inflight
    /\ inflight' = inflight \ {s}
    /\ inflightAtStop' = inflightAtStop \ {s}
    /\ listed' = [error |-> error, drives |-> drives]
    /\ callback(scan(error, drives).error, scan(error, drives).drives)
    /\ UNCHANGED <<isRunning, scanCount, lastTick, lastCall, doubleStart, startCalls, unsafeAtTick>>
    /\ UNCHANGED envVars

\* a subscriber attaches an 'error' listener: scanner.on('error', ...)
on ==
    /\ errorListeners < MaxListeners
    /\ errorListeners' = errorListeners + 1
    /\ UNCHANGED <<scannerVars, timers, inflight, lastTick, callVars, eventVars, unsafeAtTick>>
    /\ UNCHANGED <<unsafeMode, platform, wrap>>

\* a subscriber detaches its 'error' listener
off ==
    /\ errorListeners > 0
    /\ errorListeners' = errorListeners - 1
    /\ UNCHANGED <<scannerVars, timers, inflight, lastTick, callVars, eventVars, unsafeAtTick>>
    /\ UNCHANGED <<unsafeMode, platform, wrap>>

\* the user changes the unsafeMode setting
setUnsafeMode ==
    /\ unsafeMode' = ~unsafeMode
    /\ UNCHANGED <<scannerVars, timers, inflight, lastTick, callVars, eventVars, unsafeAtTick>>
    /\ UNCHANGED <<errorListeners, platform, wrap>>

----------------------------------------------------------------------------
\* The specifications.

Tick == \E t \in TimerIds : run(t)

ListError == \E s \in ScanIds, error \in Errors : list(s, error, <<>>)

ListDrives == \E s \in ScanIds, drives \in ScenarioLists : list(s, Null, drives)

Next ==
    \/ start
    \/ stop
    \/ Tick
    \/ ListError
    \/ ListDrives
    \/ on
    \/ off
    \/ setUnsafeMode

\* Every call sequence, exact counters.
Spec == Init /\ [][Next]_vars

\* The same steps with the counters observed by their parity only, so that the
\* polling loop, which never ends, has finitely many states; every pending timer
\* fires and every enumeration in flight calls back.  What the enumerations
\* return does not matter to the scheduling: they fail with one error or find
\* no drive, and with no drive to name the platform is left at one value.
LiveInit == InitWith(TRUE) /\ platform = "linux"

LiveListError == \E s \in ScanIds : list(s, "EIO", <<>>)

LiveListDrives == \E s \in ScanIds : list(s, Null, <<>>)

LiveNext ==
    \/ start
    \/ stop
    \/ Tick
    \/ LiveListError
    \/ LiveListDrives
    \/ on
    \/ off
    \/ setUnsafeMode

Fairness ==
    /\ \A t \in TimerIds : WF_vars(run(t))
    /\ \A s \in ScanIds : WF_vars(list(s, "EIO", <<>>))
    /\ \A s \in ScanIds : WF_vars(list(s, Null, <<>>))

LiveSpec == LiveInit /\ [][LiveNext]_vars /\ Fairness

\* One enumeration, drawn from every raw list within the bounds: the scanner is
\* running, its first tick has started scan 1, and drivelist.list() calls back.
ScanInit ==
    /\ isRunning = TRUE
    /\ timer = 1
    /\ scanCount = 1
    /\ errorCount = 0
    /\ timers = [t \in TimerIds |-> 0]
    /\ inflight = {1}
    /\ errorListeners = 0
    /\ unsafeMode \in BOOLEAN
    /\ platform \in Platforms
    /\ emitted = [drives |-> 0, error |-> 0]
    /\ last = NoEvent
    /\ listed = NoList
    /\ lastTick = "scan"
    /\ lastCall = "start"
    /\ doubleStart = FALSE
    /\ startCalls = 1
    /\ inflightAtStop = {}
    /\ unsafeAtTick = unsafeMode
    /\ wrap = FALSE

ScanNext == \E drives \in RawLists : list(1, Null, drives)

ScanSpec == ScanInit /\ [][ScanNext]_vars

\* ScanSpec starts in a state Spec reaches.
ScanInitReached == ~ScanInit

----------------------------------------------------------------------------
\* What the steps are, read off two successive states.

\* drivelist.list() has called back: one scan fewer is in flight
Completed == Cardinality(inflight') < Cardinality(inflight)

CompletedWithError == Completed /\ listed'.error # Null

CompletedWithDrives == Completed /\ listed'.error = Null

\* the timers armed by the step
Armed == {t \in TimerIds : timers[t] = 0 /\ timers'[t] # 0}

Emitted == emitted.drives + emitted.error

----------------------------------------------------------------------------
\* C1: for all sequences of start() and stop() calls, interleaved in any way
\* with timer firings and scan completions, at most one scan timer is pending
\* at any instant.
C1_AtMostOnePendingTimer == Cardinality(Pending) <= 1

\* C2: no two scans overlap: at most one call to the enumeration facility is
\* in flight in every reachable state.
C2_NoOverlappingScans == Cardinality(inflight) <= 1

\* C3: after stop(), once every scan that was in flight at that moment has had
\* its callback run, no scan is started (scanCount does not change, no
\* enumeration is invoked) until start() is called again.
C3_NoScanUntilStart ==
    [][(lastCall = "stop" /\ inflightAtStop = {} /\ lastCall' = "stop")
          => (scanCount' = scanCount /\ inflight' \subseteq inflight)]_vars

\* C3's case: two start() calls left a timer that stop() did not cancel, the
\* scans in flight at stop() have called back, and that timer has fired since.
C3_Witness ==
    /\ lastCall = "stop"
    /\ inflightAtStop = {}
    /\ lastTick = "idle"
    /\ startCalls >= 2
    /\ scanCount >= 1

\* C4: in every execution where start() is called twice in a row and stop() is
\* never called afterwards, the scanner eventually reaches and stays in states
\* with only one live chain (one pending timer or one scan in flight).  The
\* executions meant are those that end with two start() calls in a row: no
\* stop() and no further start() follows.
C4_OneChainEventually ==
    (<>[]doubleStart /\ <>[][startCalls' = startCalls]_vars) => <>[](Chains <= 1)

\* C5: when the enumeration completes a scan with an error, that scan emits no
\* 'drives' event and exactly one 'error' event carrying that error, errorCount
\* grows by one, and if the scanner is running the next scan timer is armed.
C5_ErrorScan ==
    [][CompletedWithError
          => /\ emitted'.drives = emitted.drives
             /\ emitted'.error = emitted.error + 1
             /\ last'.type = "error"
             /\ last'.error = listed'.error
             /\ errorCount' = errorCount + 1
             /\ (isRunning => \E t \in Armed : timers'[t] = DRIVE_SCANNER_DELAY_MS)]_vars

\* C6: no enumeration error aborts the polling loop, whatever listeners are
\* attached: when a scan fails while the scanner is running, the callback
\* completes normally and arms the next timer, so that the chain the scan
\* belonged to lives on and another scan follows.
C6_ErrorNeverAbortsLoop ==
    [][(CompletedWithError /\ isRunning)
          => (Cardinality(Armed) = 1 /\ Chains' = Chains)]_vars

\* C7: a scan in flight when stop() is called still calls back afterwards and
\* still emits its one event, 'error' or 'drives' as the enumeration decided,
\* while the scanner is stopped; only the arming of the next timer looks at
\* isRunning.
C7_LateScanStillEmits ==
    [][(Completed /\ ~isRunning)
          => /\ Emitted' = Emitted + 1
             /\ last'.type = (IF listed'.error # Null THEN "error" ELSE "drives")
             /\ Armed = {}]_vars

\* C7's case: an event was emitted after the most recent call, and that call
\* was stop().
C7_Witness == lastCall = "stop" /\ ~isRunning /\ last.type \in {"drives", "error"}

\* a payload without the names processDrives added
Raw(payload) ==
    [i \in 1 .. Len(payload) |->
        [device |-> payload[i].device,
         system |-> payload[i].system,
         mountpoints |-> payload[i].mountpoints]]

NotSystem(drive) == drive.system # TRUE

\* C8: with unsafeMode false the 'drives' payload is exactly the subsequence of
\* the raw list whose system flag is not true, in the original order; with
\* unsafeMode true it holds every raw descriptor, in the original order.
C8_PayloadIsFilteredList ==
    last.type = "drives"
        => Raw(last.drives) = IF unsafeMode THEN listed.drives
                              ELSE SelectSeq(listed.drives, NotSystem)

\* C8's case: a system drive ahead of a removable one, unsafeMode false, and
\* the payload holds the removable drive alone.
C8_Witness ==
    /\ last.type = "drives"
    /\ ~unsafeMode
    /\ Len(listed.drives) = 2
    /\ listed.drives[1].system /\ ~listed.drives[2].system
    /\ Len(last.drives) = 1
    /\ last.drives[1].device = listed.drives[2].device

\* the first k mount-point paths of a drive, each after the first behind ", "
RECURSIVE PathsJoined(_, _)
PathsJoined(mountpoints, k) ==
    IF k = 0 THEN ""
    ELSE IF k = 1 THEN mountpoints[1].path
    ELSE PathsJoined(mountpoints, k - 1) \o ", " \o mountpoints[k].path

\* C9: every drive of a 'drives' payload is named by its device on a platform
\* other than Windows; on Windows by its mount-point paths joined by ", " in
\* their order when it has any, and by its device when it has none.
C9_DisplayName ==
    last.type = "drives"
        => \A i \in 1 .. Len(last.drives) :
              LET drive == last.drives[i]
              IN  drive.name =
                      IF platform = "win32" /\ Len(drive.mountpoints) >= 1
                      THEN PathsJoined(drive.mountpoints, Len(drive.mountpoints))
                      ELSE drive.device

\* C9's case: on Windows, a drive mounted at D:\ and E:\ is named "D:\, E:\".
C9_Witness ==
    /\ last.type = "drives"
    /\ platform = "win32"
    /\ \E i \in 1 .. Len(last.drives) :
          /\ last.drives[i].mountpoints = <<[path |-> "D:\\"], [path |-> "E:\\"]>>
          /\ last.drives[i].name = "D:\\, E:\\"

\* C10: every scan started makes exactly one emit() call when it completes,
\* 'drives' or 'error': scanCount = scans in flight + 'drives' events + 'error'
\* events, and errorCount = 'error' events.
C10_OneEventPerScan ==
    /\ scanCount = Cardinality(inflight) + emitted.drives + emitted.error
    /\ errorCount = emitted.error

\* C10's case: one scan has failed, one has succeeded and one is in flight.
C10_Witness ==
    /\ emitted.drives >= 1
    /\ emitted.error >= 1
    /\ inflight # {}

\* More steps read off two successive states.

\* start() was called
Started == startCalls' # startCalls

\* a timer fired into run(): stop() is the other step that takes a timer away,
\* and it leaves lastTick "none"
Fired == (\E t \in TimerIds : timers[t] # 0 /\ timers'[t] = 0) /\ lastTick' # "none"

\* a tick invoked the enumeration facility
ScanStarted == Fired /\ Cardinality(inflight') = Cardinality(inflight) + 1

\* stop() was called in a state where it leaves a trace in what is observed of
\* the calls: every other step either keeps last, listed, lastTick and
\* inflightAtStop or sets one of them to something stop() does not
StopCalled ==
    /\ lastCall' = "stop" /\ lastTick' = "none"
    /\ last' = NoEvent /\ listed' = NoList
    /\ inflightAtStop' = inflight
    /\ <<lastCall, lastTick, last, listed, inflightAtStop>>'
          # <<lastCall, lastTick, last, listed, inflightAtStop>>

\* C11: scanCount and errorCount never decrease and are never reset: every
\* step, start() and stop() included, changes each by 0 or +1; scanCount grows
\* only when a tick invokes the enumeration facility and errorCount only when
\* a scan completes with an error.
C11_CountersOnlyGrow ==
    [][/\ scanCount' \in {scanCount, scanCount + 1}
       /\ errorCount' \in {errorCount, errorCount + 1}
       /\ (scanCount' # scanCount => ScanStarted)
       /\ (errorCount' # errorCount => CompletedWithError)
       /\ ((Started \/ StopCalled) => UNCHANGED <<scanCount, errorCount>>)]_vars

\* C11's case: stop() was called after a scan had failed (nothing was emitted
\* since), and both counters still hold what they had counted.
C11_Witness ==
    /\ lastCall = "stop"
    /\ last = NoEvent
    /\ inflight = {}
    /\ scanCount >= 1
    /\ errorCount >= 1

\* C12: stop() called while the scanner is not running is a no-op: isRunning
\* stays false, the handle it clears is of no pending timer, the counters are
\* unchanged, nothing is emitted and no scan is started.
C12_StopWhileStoppedIsNoOp ==
    [][(StopCalled /\ ~isRunning)
          => /\ isRunning' = FALSE
             /\ (timer = 0 \/ timers[timer] = 0)
             /\ UNCHANGED <<timer, timers, scanCount, errorCount, inflight, emitted>>]_vars

\* C12's case: stop() was called before any start(), on the scanner as
\* constructed.
C12_Witness == lastCall = "stop" /\ startCalls = 0 /\ ~isRunning

\* C13: a tick that fires while the scanner is not running returns at once: no
\* enumeration is invoked, scanCount is not incremented, nothing is emitted
\* and no timer is armed.
C13_IdleTick ==
    [][(Fired /\ ~isRunning)
          => /\ lastTick' = "idle"
             /\ Armed = {}
             /\ UNCHANGED <<scanCount, errorCount, inflight, emitted, isRunning, timer>>]_vars

\* C13's case: the most recent tick since stop() found the scanner stopped.
C13_Witness == ~isRunning /\ lastTick = "idle"

\* C14: when a scan's callback runs, whether the scan succeeded or failed,
\* it arms exactly one next-tick timer if isRunning is true at that moment and
\* none if it is false.
C14_CallbackArmsByFlag ==
    [][Completed
          => IF isRunning
             THEN /\ Cardinality(Armed) = 1
                  /\ timer' \in Armed
                  /\ timers'[timer'] = DRIVE_SCANNER_DELAY_MS
             ELSE Armed = {}]_vars

\* stop() was called on a running scanner: no other step clears isRunning
Stopped == isRunning /\ ~isRunning'

\* C15: start() called while the scanner is running with its timer pending
\* arms a second timer and leaves the first pending; this.timer now holds the
\* new handle, and a later stop() cancels the timer this.timer holds and no
\* other.
C15_RestartLeaksTimer ==
    [][/\ (Started /\ isRunning /\ timer \in Pending)
          => /\ timers'[timer] = timers[timer]
             /\ timer' # timer
             /\ Pending' = Pending \cup {timer'}
             /\ Cardinality(Pending') = Cardinality(Pending) + 1
       /\ Stopped => (Pending' = Pending \ {timer} /\ timer' = timer)]_vars

\* C15's case: start(), start(), stop() before any tick: the first timer is
\* still pending, the second is cancelled.
C15_Witness ==
    /\ lastCall = "stop"
    /\ scanCount = 0
    /\ startCalls >= 2
    /\ Cardinality(Pending) = 1
    /\ timer \notin Pending

\* C16: timer chains never multiply on their own: pending timers + scans in
\* flight never exceed the number of start() calls made so far.
C16_ChainsAtMostStarts == Chains <= startCalls

\* C16's case: two start() calls, two chains, and scans have completed and
\* re-armed since.
C16_Witness ==
    /\ startCalls = 2
    /\ Chains = 2
    /\ Emitted >= 1
    /\ inflight # {}

\* C17: if stop() is called and start() is never called again, then, every
\* pending timer firing and every enumeration completing in the end, the
\* scanner reaches and keeps a state with no pending timer and no scan in
\* flight, after which the counters never change and nothing is emitted.
C17_QuiescenceAfterStop ==
    <>[](lastCall = "stop")
        => /\ <>[](Chains = 0)
           /\ <>[][UNCHANGED <<scanCount, errorCount, emitted>>]_vars

\* C17's case: after stop(), a timer left by a repeated start() has fired, and
\* nothing is pending or in flight any more.
C17_Witness ==
    /\ lastCall = "stop"
    /\ lastTick = "idle"
    /\ Chains = 0
    /\ doubleStart = FALSE
    /\ inflightAtStop = {}

\* C19: isRunning is written by start() and stop() alone: it is true exactly
\* when the most recent of those calls was start(), whatever timers fired and
\* scans completed since.
C19_RunningIsLastCall == isRunning = (lastCall = "start")

\* C19's case: a scan has failed since the last start(), and the scanner is
\* still running.
C19_Witness ==
    /\ lastCall = "start"
    /\ isRunning
    /\ last.type = "error"
    /\ errorCount >= 1

\* C18: the unsafeMode setting is read when the enumeration completes, not
\* when the scan or the scanner was started: the 'drives' payload is the raw
\* list filtered by the setting as it is at that moment, so it holds a system
\* drive only if unsafeMode is true then; a failed scan emits its error
\* whatever the setting.
C18_SettingReadAtCompletion ==
    [][/\ CompletedWithDrives
          => /\ last'.type = "drives"
             /\ Raw(last'.drives) = IF unsafeMode THEN listed'.drives
                                    ELSE SelectSeq(listed'.drives, NotSystem)
             /\ ((\E i \in 1 .. Len(last'.drives) : last'.drives[i].system) => unsafeMode)
       /\ CompletedWithError
          => (last'.type = "error" /\ last'.error = listed'.error /\ last'.drives = <<>>)]_vars

\* C18's case: the one scan ever started was started with unsafeMode false,
\* the setting was changed while it was in flight, and its payload holds the
\* system drive.
C18_Witness ==
    /\ scanCount = 1
    /\ inflight = {}
    /\ ~unsafeAtTick
    /\ last.type = "drives"
    /\ \E i \in 1 .. Len(last.drives) : last.drives[i].system

====
